---- MODULE Spec2Model ----
(***************************************************************************)
(* Model of the ZKTeco iClock parser (src/src/parser.ts).                  *)
(*                                                                         *)
(* Strings are sequences of lexemes.  Every lexeme is a single character   *)
(* ("1", "x", " ", "\t", "\n", ",", ...) except the date and time lexemes  *)
(* "2025-08-27", "2025/08/27", "10:57:49", which stand for the characters  *)
(* they spell and contain no whitespace, tab, newline or comma, so that    *)
(* trim() and split() act on a lexeme sequence as on the string.           *)
(* An optional JavaScript value (T | undefined | null) is a sequence of    *)
(* length 0 (absent) or 1 (present); NaN is the absent number.             *)
(* Instants are seconds since the Unix epoch (Date.getTime() / 1000).      *)
(***************************************************************************)
EXTENDS Integers, Sequences, FiniteSets, TLC

None == <<>>
Some(x) == <<x>>
IsSome(o) == Len(o) = 1
Get(o) == o[1]

----------------------------------------------------------------------------
(* String primitives of the JavaScript runtime                             *)

WhiteSpace == {" ", "\t", "\n", "\r"}

Digits == {"0", "1", "2", "3", "4", "5", "6", "7", "8", "9"}

DigitVal(c) ==
    CASE c = "0" -> 0 [] c = "1" -> 1 [] c = "2" -> 2 [] c = "3" -> 3
      [] c = "4" -> 4 [] c = "5" -> 5 [] c = "6" -> 6 [] c = "7" -> 7
      [] c = "8" -> 8 [] c = "9" -> 9

RECURSIVE TrimStart(_)
TrimStart(s) ==
    IF s # <<>> /\ Head(s) \in WhiteSpace THEN TrimStart(Tail(s)) ELSE s

RECURSIVE TrimEnd(_)
TrimEnd(s) ==
    IF s # <<>> /\ s[Len(s)] \in WhiteSpace
    THEN TrimEnd(SubSeq(s, 1, Len(s) - 1))
    ELSE s

\* String.prototype.trim
Trim(s) == TrimEnd(TrimStart(s))

RECURSIVE SplitFrom(_, _, _, _)
SplitFrom(s, sep, k, cur) ==
    IF k > Len(s) THEN <<cur>>
    ELSE IF s[k] = sep THEN <<cur>> \o SplitFrom(s, sep, k + 1, <<>>)
    ELSE SplitFrom(s, sep, k + 1, Append(cur, s[k]))

\* String.prototype.split(sep) for a one-character separator
Split(s, sep) == SplitFrom(s, sep, 1, <<>>)

RECURSIVE Join(_, _)
Join(ss, sep) ==
    IF ss = <<>> THEN <<>>
    ELSE IF Len(ss) = 1 THEN ss[1]
    ELSE ss[1] \o <<sep>> \o Join(Tail(ss), sep)

RECURSIVE DigitPrefix(_, _, _)
\* value of the longest run of decimal digits of s starting at k (absent
\* when the run is empty)
DigitPrefix(s, k, acc) ==
    IF k <= Len(s) /\ s[k] \in Digits
    THEN DigitPrefix(s, k + 1, Some((IF IsSome(acc) THEN Get(acc) ELSE 0) * 10 + DigitVal(s[k])))
    ELSE acc

\* Number.parseInt(s, 10): leading whitespace skipped, optional sign, then
\* the longest digit prefix; NaN (None) when there is no digit.
ParseInt(s) ==
    LET t == TrimStart(s)
        neg == t # <<>> /\ Head(t) = "-"
        signed == t # <<>> /\ Head(t) \in {"-", "+"}
        v == DigitPrefix(t, IF signed THEN 2 ELSE 1, None)
    IN  IF IsSome(v) THEN Some(IF neg THEN 0 - Get(v) ELSE Get(v)) ELSE None

----------------------------------------------------------------------------
(* Enumerations (src/src/types.ts)                                         *)

VerifyType == {0, 1, 2, 3, 15, 25}
InOutMode == {0, 1, 2, 3, 4, 5}
WorkCode == {0, 1, 2, 3}

VerifyType_UNKNOWN == 0
InOutMode_CHECK_IN == 0
WorkCode_NORMAL == 0

----------------------------------------------------------------------------
(* The JavaScript Date of the runtime                                      *)

\* A runtime is the process the parser runs in: its local UTC offset in
\* minutes (east positive) and whether its Date constructor accepts the
\* non-ISO form "YYYY-MM-DD HH:mm:ss" (implementation-defined in ECMAScript:
\* accepted as local time, or rejected as an invalid date).
Runtimes == [localOffsetMin : {0, -300}, acceptsSpaceForm : BOOLEAN]

IsoDates == {"2025-08-27"}
SlashDates == {"2025/08/27"}
Times == {"10:57:49"}

\* seconds from the epoch to 00:00:00 UTC of the day a date lexeme spells
DateWall(d) == 1756252800

\* seconds from 00:00:00 to the time of day a time lexeme spells
TimeWall(t) == 39469

\* new Date(str).getTime() / 1000, None for an invalid date.  A date-only ISO
\* string is read as UTC, an ISO date-time without offset as local time
\* (ECMAScript, Date.parse).
DateParse(str, rt) ==
    IF Len(str) = 1 /\ str[1] \in IsoDates
    THEN Some(DateWall(str[1]))
    ELSE IF Len(str) = 3 /\ str[1] \in IsoDates /\ str[3] \in Times
            /\ (str[2] = "T" \/ (str[2] = " " /\ rt.acceptsSpaceForm))
    THEN Some(DateWall(str[1]) + TimeWall(str[3]) - rt.localOffsetMin * 60)
    ELSE None

\* Date.prototype.getTimezoneOffset: minutes to add to local time to get UTC
GetTimezoneOffset(rt) == 0 - rt.localOffsetMin

\* str.replace(/\//g, "-")
ReplaceSlashes(str) ==
    [k \in 1..Len(str) |->
        IF str[k] = "/" THEN "-"
        ELSE IF str[k] \in SlashDates THEN "2025-08-27"
        ELSE str[k]]

\* str.replace(" ", "T"): the first occurrence only
ReplaceFirstSpace(str) ==
    LET idx == {k \in 1..Len(str) : str[k] = " "}
    IN  IF idx = {} THEN str
        ELSE LET f == CHOOSE k \in idx : \A j \in idx : k <= j
             IN  [k \in 1..Len(str) |-> IF k = f THEN "T" ELSE str[k]]

parseTimestamp(timestampStr, timezoneOffset, rt) ==
    IF timestampStr = <<>> THEN None
    ELSE
      LET clean == ReplaceSlashes(Trim(timestampStr))
          first == DateParse(clean, rt)
          date == IF IsSome(first) THEN first
                  ELSE DateParse(ReplaceFirstSpace(clean), rt)
      IN  IF ~IsSome(date) THEN None
          ELSE
            LET serverOffsetMin == GetTimezoneOffset(rt)
                deviceOffsetMin == (0 - timezoneOffset) * 60
                offsetDifferenceMin == deviceOffsetMin - serverOffsetMin
            IN  Some(Get(date) + offsetDifferenceMin * 60)

----------------------------------------------------------------------------
(* Coercers                                                                *)

\* the parsed integer returned without the membership test
parseVerifyType_mut(value) ==
    IF value = <<>> THEN None
    ELSE ParseInt(value)

parseVerifyType(value) ==
    IF value = <<>> THEN None
    ELSE LET num == ParseInt(value)
         IN  IF ~IsSome(num) THEN None
             ELSE IF Get(num) \in VerifyType THEN num ELSE None

\* the mode set taken as 0..4: OT_OUT is not recognised
parseInOutMode_mut(value) ==
    IF value = <<>> THEN None
    ELSE LET num == ParseInt(value)
         IN  IF ~IsSome(num) THEN None
             ELSE IF Get(num) \in InOutMode \ {5} THEN num ELSE None

parseInOutMode(value) ==
    IF value = <<>> THEN None
    ELSE LET num == ParseInt(value)
         IN  IF ~IsSome(num) THEN None
             ELSE IF Get(num) \in InOutMode THEN num ELSE None

parseWorkCode(value) ==
    LET num == ParseInt(value)
    IN  IF ~IsSome(num) THEN WorkCode_NORMAL ELSE Get(num)

parseNumber(value) == ParseInt(value)

----------------------------------------------------------------------------
(* Results and messages                                                    *)

\* A message is the template that built it (kind), the values interpolated
\* into it (raw text, n) and the number of its "Line N: " prefix (0: none).
Msg(kind, raw, n) == [line |-> 0, kind |-> kind, raw |-> raw, n |-> n]

LinePrefix(lineNumber, m) == [m EXCEPT !.line = lineNumber]

Failure(m) ==
    [success |-> FALSE, data |-> None, error |-> Some(m), warnings |-> None]

Success(d, ws) ==
    [success |-> TRUE, data |-> Some(d), error |-> None,
     warnings |-> IF Len(ws) > 0 THEN Some(ws) ELSE None]

----------------------------------------------------------------------------
(* parseSingleAttendanceRecord                                             *)

RECURSIVE TrimNonEmpty(_)
\* parts.map((p) => p.trim()).filter((p) => p.length > 0)
TrimNonEmpty(ps) ==
    IF ps = <<>> THEN <<>>
    ELSE LET t == Trim(Head(ps))
         IN  (IF Len(t) > 0 THEN <<t>> ELSE <<>>) \o TrimNonEmpty(Tail(ps))

TimezoneOffsetOf(options) ==
    IF IsSome(options.timezoneOffset) THEN Get(options.timezoneOffset) ELSE 4

Truthy(o) == IsSome(o) /\ Get(o)

parseSingleAttendanceRecord(line, options, rt) ==
    LET parts == Split(line, "\t")
    IN
    IF Len(parts) < 4
    THEN Failure(Msg("Insufficient fields (n/4 minimum required)", <<>>, Len(parts)))
    ELSE
      LET userID == Trim(parts[1])
          timestampStr == Trim(parts[2])
          timestamp == parseTimestamp(timestampStr, TimezoneOffsetOf(options), rt)
          inOutModeRaw == Trim(parts[3])
          inOutMode == parseInOutMode(inOutModeRaw)
          verifyTypeRaw == Trim(parts[4])
          verifyType == parseVerifyType(verifyTypeRaw)
          warnings ==
              (IF ~IsSome(inOutMode)
               THEN <<Msg("Unknown in/out mode: raw, using CHECK_IN", inOutModeRaw, 0)>>
               ELSE <<>>)
              \o
              (IF ~IsSome(verifyType)
               THEN <<Msg("Unknown verify type: raw, using UNKNOWN", verifyTypeRaw, 0)>>
               ELSE <<>>)
          workCode == IF Len(parts) >= 5 /\ parts[5] # <<>>
                      THEN parseWorkCode(Trim(parts[5]))
                      ELSE WorkCode_NORMAL
          deviceID == IF Len(parts) >= 6 /\ parts[6] # <<>>
                      THEN parseNumber(Trim(parts[6]))
                      ELSE None
          reserved == TrimNonEmpty(SubSeq(parts, 7, Len(parts)))
          attendanceLog ==
              [userID |-> userID,
               timestamp |-> Get(timestamp),
               inOutMode |-> IF IsSome(inOutMode) THEN Get(inOutMode) ELSE InOutMode_CHECK_IN,
               verifyType |-> IF IsSome(verifyType) THEN Get(verifyType) ELSE VerifyType_UNKNOWN,
               workCode |-> workCode,
               deviceID |-> deviceID,
               reserved |-> IF Len(reserved) > 0 THEN Some(reserved) ELSE None,
               raw |-> IF Truthy(options.includeRawData) THEN Some(line) ELSE None]
      IN
      IF userID = <<>> THEN Failure(Msg("Missing User ID", <<>>, 0))
      ELSE IF timestampStr = <<>> THEN Failure(Msg("Missing timestamp", <<>>, 0))
      ELSE IF ~IsSome(timestamp)
      THEN Failure(Msg("Invalid timestamp format: raw", timestampStr, 0))
      ELSE Success(attendanceLog, warnings)

----------------------------------------------------------------------------
(* parseDeviceInfo                                                         *)

\* infoParts[k] || dflt (k counted from 0 as in the source)
PartOr(infoParts, k, dflt) ==
    IF k + 1 <= Len(infoParts) /\ infoParts[k + 1] # <<>>
    THEN infoParts[k + 1]
    ELSE dflt

\* Number.parseInt(infoParts[k] || "0", 10) || 0
CountAt(infoParts, k) ==
    LET num == ParseInt(PartOr(infoParts, k, <<"0">>))
    IN  IF IsSome(num) /\ Get(num) # 0 THEN Get(num) ELSE 0

\* the segment before the one asked for
OptionalAt_mut(infoParts, k) ==
    IF k >= 1 /\ k <= Len(infoParts) /\ infoParts[k] # <<>>
    THEN Some(infoParts[k])
    ELSE None

\* infoParts[k] || undefined
OptionalAt(infoParts, k) ==
    IF k + 1 <= Len(infoParts) /\ infoParts[k + 1] # <<>>
    THEN Some(infoParts[k + 1])
    ELSE None

parseDeviceInfo(queryParams) ==
    IF ~IsSome(queryParams.SN) \/ Get(queryParams.SN) = <<>>
    THEN Failure(Msg("Missing device serial number (SN parameter)", <<>>, 0))
    ELSE
      LET deviceInfo ==
              [serialNumber |-> Get(queryParams.SN), model |-> <<>>,
               userCount |-> 0, fpCount |-> 0, recordCount |-> 0,
               deviceIP |-> <<>>, adminCount |-> 0, passwordCount |-> 0,
               cardCount |-> 0, faceCount |-> 0,
               firmware |-> None, platform |-> None, fingerVer |-> None,
               faceVer |-> None, pushVer |-> None]
      IN
      IF IsSome(queryParams.INFO) /\ Get(queryParams.INFO) # <<>>
      THEN
        LET infoParts == Split(Get(queryParams.INFO), ",")
            base ==
              [deviceInfo EXCEPT
                 !.model = PartOr(infoParts, 0, <<>>),
                 !.userCount = CountAt(infoParts, 1),
                 !.fpCount = CountAt(infoParts, 2),
                 !.recordCount = CountAt(infoParts, 3),
                 !.deviceIP = PartOr(infoParts, 4, <<>>),
                 !.adminCount = CountAt(infoParts, 5),
                 !.passwordCount = CountAt(infoParts, 6),
                 !.cardCount = CountAt(infoParts, 7),
                 !.faceCount = CountAt(infoParts, 8)]
        IN  IF Len(infoParts) > 9
            THEN Success([base EXCEPT
                            !.firmware = OptionalAt(infoParts, 9),
                            !.platform = OptionalAt(infoParts, 10),
                            !.fingerVer = OptionalAt(infoParts, 11),
                            !.faceVer = OptionalAt(infoParts, 12),
                            !.pushVer = OptionalAt(infoParts, 13)], <<>>)
            ELSE Success(base, <<>>)
      ELSE Success(deviceInfo, <<>>)

----------------------------------------------------------------------------
(* validateAttendanceLog                                                   *)

\* !Number.isNaN(date.getTime()): a Date built from a finite number of
\* seconds is a valid instant
IsValidDate(timestamp) == timestamp \in Int

validateAttendanceLog(log) ==
    LET errors ==
            (IF log.userID = <<>> \/ Len(Trim(log.userID)) = 0
             THEN <<"User ID is required">> ELSE <<>>)
            \o
            (IF ~IsValidDate(log.timestamp)
             THEN <<"Valid timestamp is required">> ELSE <<>>)
            \o
            (IF log.verifyType \notin VerifyType
             THEN <<"Invalid verify type">> ELSE <<>>)
            \o
            (IF log.inOutMode \notin InOutMode
             THEN <<"Invalid in/out mode">> ELSE <<>>)
    IN  IF Len(errors) > 0
        THEN Failure(Msg("errors joined by comma", errors, Len(errors)))
        ELSE Success(log, <<>>)

----------------------------------------------------------------------------
(* Inputs                                                                  *)

MaxLines == 3

D == "2025-08-27"
S == "2025/08/27"
T == "10:57:49"

UserIdFields == {<<"1", "1">>, <<" ", "7", " ">>, <<>>}

TimestampFields ==
    {<<D, " ", T>>, <<S, " ", T>>, <<D>>, <<"x">>, <<>>}

InOutFields ==
    {<<"0">>, <<" ", "5">>, <<"6">>, <<"x">>, <<"1", "x">>, <<>>}

VerifyFields == {<<"2", "5">>, <<"7">>, <<"x">>, <<>>}

\* the fields after the fourth
TailFields ==
    {<<>>, << <<>> >>, << <<"0">> >>, << <<"3">> >>, << <<"9">> >>,
     << <<"x">> >>, << <<"-", "1">> >>,
     << <<"1">>, <<"4", "2">>, <<"r">>, <<>>, <<" ", "s">> >>}

ShortLines ==
    {<<"x">>, <<"x", "\t", "x">>, <<"1", "1", "\t", D, " ", T, "\t", "0">>}

SingleLines ==
    {Join(<<u, t, io, vt>> \o tl, "\t") :
        u \in UserIdFields, t \in TimestampFields, io \in InOutFields,
        vt \in VerifyFields, tl \in TailFields}
    \cup ShortLines

SingleOptions ==
    [strictMode : {None}, includeRawData : {None, Some(TRUE)},
     timezoneOffset : {None, Some(-5)}]

BatchLines ==
    {<<"1", "1", "\t", D, " ", T, "\t", "0", "\t", "2", "5">>,
     <<"7", "\t", D, " ", T, "\t", "1", "\t", "1", "\t", "0">>,
     <<"1", "1", "\t", D, " ", T, "\t", "9", "\t", "2", "5">>,
     <<"1", "1", "\t", D, " ", T, "\t", "0", "\t">>,
     <<"\t", "7", "\t", D, " ", T, "\t", "0", "\t", "1">>,
     <<"x", "\t", "x">>,
     <<"1", "1", "\t", "x", "\t", "0", "\t", "1">>,
     <<>>,
     <<" ">>}

JSString(str) == [type |-> "string", str |-> str]

NonStrings ==
    {[type |-> "undefined", str |-> <<>>], [type |-> "number", str |-> <<>>]}

Bodies ==
    {JSString(Join(ls, "\n")) :
        ls \in UNION {[1..n -> BatchLines] : n \in 1..MaxLines}}
    \cup NonStrings

BatchOptions ==
    [strictMode : {None, Some(FALSE), Some(TRUE)}, includeRawData : {None},
     timezoneOffset : {None}]

MaxSegments == 15

Segments == {<<>>, <<"Z">>, <<"1", "2">>, <<"-", "5">>, <<"7", "x">>, <<"0">>}

BaseSegments == {<<"1", "2">>, <<"Z">>, <<>>}

\* INFO strings of n segments, all equal to b but the p-th, which is c
InfoStrings ==
    {Join([k \in 1..n |-> IF k = p THEN c ELSE b], ",") :
        n \in 1..MaxSegments, p \in 1..MaxSegments, b \in BaseSegments,
        c \in Segments}

QueryParams ==
    [SN : {None, Some(<<>>), Some(<<" ", "M", "7">>)},
     INFO : {None} \cup {Some(info) : info \in InfoStrings}]

NoOptions == [strictMode |-> None, includeRawData |-> None, timezoneOffset |-> None]

----------------------------------------------------------------------------
(* State                                                                   *)

VARIABLES
    runtime,      \* the process the parser runs in
    call,         \* the call made: operation, argument, options
    pc,           \* "start", "loop" (inside parseAttendanceLog's for), "done"
    ret,          \* the value the call returned (None until it returns)
    lines,        \* parseAttendanceLog: the filtered lines
    i,            \* parseAttendanceLog: the loop index
    attendances,  \* parseAttendanceLog: the records so far
    warnings      \* parseAttendanceLog: the warnings so far

vars == <<runtime, call, pc, ret, lines, i, attendances, warnings>>

SingleCalls ==
    [op : {"parseSingleAttendanceRecord"}, arg : SingleLines, options : SingleOptions]

BatchCalls ==
    [op : {"parseAttendanceLog"}, arg : Bodies, options : BatchOptions]

DeviceCalls ==
    [op : {"parseDeviceInfo"}, arg : QueryParams, options : {NoOptions}]

\* the runtimes a batch is run in: one of each kind of Date constructor
BatchRuntimes ==
    {[localOffsetMin |-> 0, acceptsSpaceForm |-> TRUE],
     [localOffsetMin |-> -300, acceptsSpaceForm |-> FALSE]}

\* parseDeviceInfo reads nothing of the runtime
DeviceRuntimes == {[localOffsetMin |-> 0, acceptsSpaceForm |-> TRUE]}

Init ==
    /\ \/ call \in SingleCalls /\ runtime \in Runtimes
       \/ call \in BatchCalls /\ runtime \in BatchRuntimes
       \/ call \in DeviceCalls /\ runtime \in DeviceRuntimes
    /\ pc = "start"
    /\ ret = None
    /\ lines = <<>>
    /\ i = 0
    /\ attendances = <<>>
    /\ warnings = <<>>

ParseSingleAttendanceRecord ==
    /\ pc = "start"
    /\ call.op = "parseSingleAttendanceRecord"
    /\ ret' = Some(parseSingleAttendanceRecord(call.arg, call.options, runtime))
    /\ pc' = "done"
    /\ UNCHANGED <<runtime, call, lines, i, attendances, warnings>>

RECURSIVE FilterNonBlank(_)
\* .filter((line) => line.trim())
FilterNonBlank(ls) ==
    IF ls = <<>> THEN <<>>
    ELSE (IF Trim(Head(ls)) # <<>> THEN <<Head(ls)>> ELSE <<>>)
         \o FilterNonBlank(Tail(ls))

\* the input rejected when it is empty after trimming
InvalidData_mut(data) == data.type # "string" \/ Trim(data.str) = <<>>

\* !data || typeof data !== "string"
InvalidData(data) == data.type # "string" \/ data.str = <<>>

\* parseAttendanceLog up to the loop
ParseAttendanceLogCall ==
    /\ pc = "start"
    /\ call.op = "parseAttendanceLog"
    /\ LET data == call.arg
       IN  IF InvalidData(data)
           THEN /\ ret' = Some(Failure(Msg("Invalid or empty attendance data", <<>>, 0)))
                /\ pc' = "done"
                /\ UNCHANGED lines
           ELSE /\ lines' = FilterNonBlank(Split(Trim(data.str), "\n"))
                /\ pc' = "loop"
                /\ UNCHANGED ret
    /\ UNCHANGED <<runtime, call, i, attendances, warnings>>

\* the line's message returned without its prefix
LineFailure_mut(lineNumber, error) == Failure(error)

\* return { success: false, error: `Line ${lineNumber}: ${result.error}` }
LineFailure(lineNumber, error) == Failure(LinePrefix(lineNumber, error))

\* one iteration of parseAttendanceLog's loop
ParseAttendanceLogIterate ==
    /\ pc = "loop"
    /\ i < Len(lines)
    /\ LET raw == lines[i + 1]
           line == Trim(raw)
           lineNumber == i + 1
           result == parseSingleAttendanceRecord(line, call.options, runtime)
           pushed == IF result.success /\ IsSome(result.data)
                     THEN Append(attendances, Get(result.data))
                     ELSE attendances
           warned == IF IsSome(result.warnings)
                     THEN warnings \o Get(result.warnings)
                     ELSE warnings
       IN  IF raw = <<>> \/ line = <<>>
           THEN /\ i' = i + 1
                /\ UNCHANGED <<pc, ret, attendances, warnings>>
           ELSE IF IsSome(result.error) /\ Truthy(call.options.strictMode)
           THEN /\ ret' = Some(LineFailure(lineNumber, Get(result.error)))
                /\ pc' = "done"
                /\ attendances' = pushed
                /\ warnings' = warned
                /\ UNCHANGED i
           ELSE /\ attendances' = pushed
                /\ warnings' = IF IsSome(result.error)
                               THEN Append(warned, LinePrefix(lineNumber, Get(result.error)))
                               ELSE warned
                /\ i' = i + 1
                /\ UNCHANGED <<pc, ret>>
    /\ UNCHANGED <<runtime, call, lines>>

\* the record list attached only when it is not empty, as the warnings are
ParseAttendanceLogReturn_mut ==
    /\ pc = "loop"
    /\ i = Len(lines)
    /\ ret' = Some([Success(attendances, warnings) EXCEPT
                      !.data = IF Len(attendances) > 0 THEN Some(attendances) ELSE None])
    /\ pc' = "done"
    /\ UNCHANGED <<runtime, call, lines, i, attendances, warnings>>

\* parseAttendanceLog after the loop
ParseAttendanceLogReturn ==
    /\ pc = "loop"
    /\ i = Len(lines)
    /\ ret' = Some(Success(attendances, warnings))
    /\ pc' = "done"
    /\ UNCHANGED <<runtime, call, lines, i, attendances, warnings>>

ParseDeviceInfo ==
    /\ pc = "start"
    /\ call.op = "parseDeviceInfo"
    /\ ret' = Some(parseDeviceInfo(call.arg))
    /\ pc' = "done"
    /\ UNCHANGED <<runtime, call, lines, i, attendances, warnings>>

Next ==
    \/ ParseSingleAttendanceRecord
    \/ ParseDeviceInfo
    \/ ParseAttendanceLogCall
    \/ ParseAttendanceLogIterate
    \/ ParseAttendanceLogReturn

Spec == Init /\ [][Next]_vars

----------------------------------------------------------------------------
(* Vocabulary of the properties                                            *)

Returned(op) == pc = "done" /\ call.op = op /\ IsSome(ret)

Result == Get(ret)

\* the fields of a line as the claims count them: tab-separated
Fields(line) == Split(line, "\t")

AllDigits(s) == s # <<>> /\ \A k \in 1..Len(s) : s[k] \in Digits

RECURSIVE DecimalValue(_)
\* the number a string of decimal digits denotes
DecimalValue(s) ==
    IF s = <<>> THEN 0
    ELSE DecimalValue(SubSeq(s, 1, Len(s) - 1)) * 10 + DigitVal(s[Len(s)])

\* s is the decimal numeral, optionally signed, of an integer
IsInteger(s) ==
    \/ AllDigits(s)
    \/ Len(s) >= 2 /\ s[1] \in {"-", "+"} /\ AllDigits(Tail(s))

IntegerValue(s) ==
    IF AllDigits(s) THEN DecimalValue(s)
    ELSE IF s[1] = "-" THEN 0 - DecimalValue(Tail(s))
    ELSE DecimalValue(Tail(s))

\* s is the numeral of a member of the closed set
IsMember(s, set) == IsInteger(s) /\ IntegerValue(s) \in set

\* s is empty, does not start like a number, or denotes an integer outside
\* the closed set
IsUnknown(s, set) ==
    \/ s = <<>>
    \/ s[1] \notin Digits \cup {"-", "+"}
    \/ IsInteger(s) /\ IntegerValue(s) \notin set

\* the timestamp strings the parser accepts: a date, or a date and a time
\* separated by a space or a 'T'; the date written with '-' or '/'
AcceptedTimestamp(s) ==
    /\ Len(s) \in {1, 3}
    /\ s[1] \in IsoDates \cup SlashDates
    /\ Len(s) = 3 => s[2] \in {" ", "T"} /\ s[3] \in Times

\* the wall-clock value of an accepted timestamp read as UTC, in seconds
WallClockUTC(s) ==
    DateWall(s[1]) + (IF Len(s) = 3 THEN TimeWall(s[3]) ELSE 0)

\* at least 4 fields, a non-empty user id and a parseable timestamp
HasRequiredFields(line) ==
    /\ Len(Fields(line)) >= 4
    /\ Trim(Fields(line)[1]) # <<>>
    /\ AcceptedTimestamp(Trim(Fields(line)[2]))

----------------------------------------------------------------------------
(* C5 *)

C5_Pre(line) ==
    /\ HasRequiredFields(line)
    /\ IsMember(Trim(Fields(line)[3]), InOutMode)
    /\ IsMember(Trim(Fields(line)[4]), VerifyType)

\* C5: parseSingleAttendanceRecord, given a line of at least 4 fields with a
\* non-empty user id, a parseable timestamp, an in/out field in {0..5} and a
\* verify field in {0,1,2,3,15,25}, returns success without warnings and a
\* record whose userID is the trimmed field 0, whose inOutMode is the
\* integer of field 2 and whose verifyType is the integer of field 3.
C5_FieldsReflected ==
    (Returned("parseSingleAttendanceRecord") /\ C5_Pre(call.arg)) =>
        /\ Result.success
        /\ Result.warnings = None
        /\ IsSome(Result.data)
        /\ Get(Result.data).userID = Trim(Fields(call.arg)[1])
        /\ Get(Result.data).inOutMode = IntegerValue(Trim(Fields(call.arg)[3]))
        /\ Get(Result.data).verifyType = IntegerValue(Trim(Fields(call.arg)[4]))

C5_Witness ==
    /\ Returned("parseSingleAttendanceRecord")
    /\ C5_Pre(call.arg)
    /\ Fields(call.arg)[1] = <<" ", "7", " ">>
    /\ Get(Result.data).userID = <<"7">>
    /\ Get(Result.data).inOutMode = 5
    /\ Get(Result.data).verifyType = 25

----------------------------------------------------------------------------
(* C7 *)

\* C7: the workCode of every successfully parsed record is in {0,1,2,3};
\* when field 4 is absent, empty, non-numeric or an integer outside the set
\* the workCode is normal (0) and no warning is emitted for it.
C7_WorkCodeClosed ==
    (Returned("parseSingleAttendanceRecord") /\ Result.success) =>
        LET fs == Fields(call.arg)
        IN  /\ Get(Result.data).workCode \in WorkCode
            /\ (Len(fs) < 5 \/ IsUnknown(Trim(fs[5]), WorkCode)) =>
                   Get(Result.data).workCode = WorkCode_NORMAL
            /\ IsSome(Result.warnings) =>
                   \A k \in 1..Len(Get(Result.warnings)) :
                       Get(Result.warnings)[k].kind \in
                           {"Unknown in/out mode: raw, using CHECK_IN",
                            "Unknown verify type: raw, using UNKNOWN"}

----------------------------------------------------------------------------
(* C8 *)

\* C8: for every accepted timestamp string and device offset, parseTimestamp
\* returns the wall-clock value read as UTC minus the device offset in hours,
\* whatever the local UTC offset of the runtime.
C8_TimezoneIndependent ==
    (Returned("parseSingleAttendanceRecord") /\ Result.success) =>
        Get(Result.data).timestamp =
            WallClockUTC(Trim(Fields(call.arg)[2]))
              - TimezoneOffsetOf(call.options) * 3600

----------------------------------------------------------------------------
(* C9, C10 *)

Query == call.arg

HasSerial == IsSome(Query.SN) /\ Get(Query.SN) # <<>>

\* the comma-separated segments of the INFO value
InfoSegments == Split(Get(Query.INFO), ",")

Info == Get(Result.data)

\* the count fields and the (0-based) position of the segment of each
CountPositions ==
    {<<"userCount", 1>>, <<"fpCount", 2>>, <<"recordCount", 3>>,
     <<"adminCount", 5>>, <<"passwordCount", 6>>, <<"cardCount", 7>>,
     <<"faceCount", 8>>}

\* the extended fields and the (0-based) position of the segment of each
ExtendedPositions ==
    {<<"firmware", 9>>, <<"platform", 10>>, <<"fingerVer", 11>>,
     <<"faceVer", 12>>, <<"pushVer", 13>>}

SegmentAt(k) == InfoSegments[k + 1]

HasSegment(k) == k + 1 <= Len(InfoSegments) /\ SegmentAt(k) # <<>>

BaseFieldsPopulated ==
    /\ Info.model = SegmentAt(0)
    /\ Info.deviceIP = SegmentAt(4)
    /\ \A cp \in CountPositions :
           AllDigits(SegmentAt(cp[2])) =>
               Info[cp[1]] = DecimalValue(SegmentAt(cp[2]))

\* C9: with a non-empty SN and an INFO of exactly 9 segments, parseDeviceInfo
\* populates model, the seven counts and deviceIP from positions 0-8 and
\* leaves the five extended fields absent; with more than 9 segments each
\* extended field holds the segment of its position (9..13) whenever that
\* segment exists and is non-empty; the serial number is kept verbatim.
C9_DeviceInfoPositions ==
    (Returned("parseDeviceInfo") /\ HasSerial /\ IsSome(Query.INFO)
        /\ Len(InfoSegments) >= 9) =>
        /\ Result.success
        /\ Info.serialNumber = Get(Query.SN)
        /\ BaseFieldsPopulated
        /\ Len(InfoSegments) = 9 =>
               \A ep \in ExtendedPositions : Info[ep[1]] = None
        /\ Len(InfoSegments) > 9 =>
               \A ep \in ExtendedPositions :
                   HasSegment(ep[2]) => Info[ep[1]] = Some(SegmentAt(ep[2]))

C9_Witness ==
    /\ Returned("parseDeviceInfo")
    /\ HasSerial
    /\ IsSome(Query.INFO)
    /\ Len(InfoSegments) = 14
    /\ Info.serialNumber = <<" ", "M", "7">>
    /\ Info.userCount = 12
    /\ Info.firmware = Some(<<"Z">>)
    /\ Info.pushVer = Some(<<"1", "2">>)

\* C10: with a non-empty SN and any INFO (or none) parseDeviceInfo succeeds
\* and every count of the record is an integer, never NaN and never
\* negative; a missing or unparsable segment yields 0.
C10_CountsNeverNegative ==
    (Returned("parseDeviceInfo") /\ HasSerial) =>
        /\ Result.success
        /\ \A cp \in CountPositions :
               /\ Info[cp[1]] \in Int
               /\ Info[cp[1]] >= 0
               /\ (~IsSome(Query.INFO) \/ ~HasSegment(cp[2])
                     \/ SegmentAt(cp[2])[1] \notin Digits \cup {"-", "+"}) =>
                      Info[cp[1]] = 0

----------------------------------------------------------------------------
(* C4 *)

Body == call.arg

Blank(s) == \A k \in 1..Len(s) : s[k] \in WhiteSpace

\* C4: parseAttendanceLog fails, with an error string, when the input is
\* empty or is not a string, and succeeds with an empty record list and no
\* warnings when the input consists only of blank lines.
C4_EmptyAndBlankInput ==
    Returned("parseAttendanceLog") =>
        /\ (Body.type # "string" \/ Body.str = <<>>) =>
               /\ ~Result.success
               /\ IsSome(Result.error)
        /\ (Body.type = "string" /\ Body.str # <<>> /\ Blank(Body.str)) =>
               /\ Result.success
               /\ Result.data = Some(<<>>)
               /\ Result.warnings = None

C4_Witness ==
    /\ Returned("parseAttendanceLog")
    /\ Body.type = "string"
    /\ Body.str = <<" ", "\n", "\n", " ">>
    /\ Result.success
    /\ Result.data = Some(<<>>)

----------------------------------------------------------------------------
(* The batch claims: C2, C3, C1, C6 *)

StringBody == Body.type = "string" /\ Body.str # <<>>

Strict == call.options.strictMode = Some(TRUE)

\* the lines of the body as split on newline, numbered from 1
RawLines == Split(Body.str, "\n")

\* its non-blank lines, in order
NonBlankLines == SelectSeq(RawLines, LAMBDA l : ~Blank(l))

\* the single-record parse of a line as parseAttendanceLog runs it
BatchParse(l) == parseSingleAttendanceRecord(Trim(l), call.options, runtime)

\* a message without its "Line N: " prefix
Unprefixed(m) == [m EXCEPT !.line = 0]

RECURSIVE RecordsOf(_)
\* the records of the lines whose parse succeeds, in order
RecordsOf(ls) ==
    IF ls = <<>> THEN <<>>
    ELSE (IF BatchParse(Head(ls)).success
          THEN BatchParse(Head(ls)).data ELSE <<>>) \o RecordsOf(Tail(ls))

RECURSIVE WarningsOf(_, _)
\* the warnings of the lines from the k-th on: those of a parsed line, or
\* the prefixed message of a failed one
WarningsOf(ls, k) ==
    IF k > Len(ls) THEN <<>>
    ELSE LET r == BatchParse(ls[k])
         IN  (IF r.success
              THEN (IF IsSome(r.warnings) THEN Get(r.warnings) ELSE <<>>)
              ELSE <<LinePrefix(k, Get(r.error))>>)
             \o WarningsOf(ls, k + 1)

FailingLines == {k \in 1..Len(NonBlankLines) : ~BatchParse(NonBlankLines[k]).success}

FirstFailing == CHOOSE k \in FailingLines : \A j \in FailingLines : k <= j

\* C2: in strict mode parseAttendanceLog aborts at the first line whose
\* single-record parse fails: the result is a failure whose error is that
\* line's message with a "Line N:" prefix, without record list or warnings,
\* and the loop has not gone past that line; when no line fails the result
\* is the success result of lenient mode (all records, all warnings).
C2_StrictAbortsAtFirstFailure ==
    (Returned("parseAttendanceLog") /\ StringBody /\ Strict) =>
        IF FailingLines # {}
        THEN /\ ~Result.success
             /\ IsSome(Result.error)
             /\ Get(Result.error).line >= 1
             /\ Unprefixed(Get(Result.error))
                  = Get(BatchParse(NonBlankLines[FirstFailing]).error)
             /\ Result.data = None
             /\ Result.warnings = None
             /\ i + 1 = FirstFailing
        ELSE /\ Result.success
             /\ Result.error = None
             /\ Result.data = Some(RecordsOf(NonBlankLines))
             /\ Result.warnings =
                  (IF WarningsOf(NonBlankLines, 1) = <<>> THEN None
                   ELSE Some(WarningsOf(NonBlankLines, 1)))

\* strict mode aborts at a second or later line, after records and warnings
\* were collected, with lines left unprocessed
C2_Witness ==
    /\ Returned("parseAttendanceLog")
    /\ StringBody
    /\ Strict
    /\ ~Result.success
    /\ FirstFailing = 2
    /\ Len(lines) = 3
    /\ attendances # <<>>
    /\ warnings # <<>>

\* the "Line N:" diagnostics of the result
Diagnostics ==
    IF Result.success
    THEN IF IsSome(Result.warnings)
         THEN {Get(Result.warnings)[k] : k \in 1..Len(Get(Result.warnings))}
         ELSE {}
    ELSE {Get(Result.error)}

LineDiagnostics == {m \in Diagnostics : m.line >= 1}

\* C3: every "Line N:" diagnostic of parseAttendanceLog cites the 1-based
\* number, in the body split on newline, of the line it is about.
C3_LineNumberIsBodyLine ==
    (Returned("parseAttendanceLog") /\ StringBody) =>
        \A m \in LineDiagnostics :
            /\ m.line <= Len(RawLines)
            /\ ~Blank(RawLines[m.line])
            /\ ~BatchParse(RawLines[m.line]).success
            /\ Get(BatchParse(RawLines[m.line]).error) = Unprefixed(m)

\* a line is malformed when it lacks one of the required fields
Malformed(l) == ~HasRequiredFields(l)

MalformedLines == {k \in 1..Len(NonBlankLines) : Malformed(NonBlankLines[k])}

RECURSIVE ValidRecords(_)
\* the records of the well-formed lines, in order
ValidRecords(ls) ==
    IF ls = <<>> THEN <<>>
    ELSE (IF Malformed(Head(ls)) THEN <<>>
          ELSE <<Get(parseSingleAttendanceRecord(Head(ls), call.options, runtime).data)>>)
         \o ValidRecords(Tail(ls))

\* C1: in lenient mode, on a body of N non-blank lines of which exactly one
\* is malformed, parseAttendanceLog succeeds, its data is the N-1 records of
\* the valid lines in input order and its warnings hold a message for the
\* malformed line.
C1_LenientIsolatesMalformedLine ==
    (Returned("parseAttendanceLog") /\ StringBody /\ ~Strict
        /\ Cardinality(MalformedLines) = 1) =>
        /\ Result.success
        /\ Result.data = Some(ValidRecords(NonBlankLines))
        /\ Len(Get(Result.data)) = Len(NonBlankLines) - 1
        /\ LineDiagnostics # {}

\* an in/out or verify field that is empty, non-numeric or out of its set
Defaulted(l) ==
    /\ HasRequiredFields(l)
    /\ \/ IsUnknown(Trim(Fields(l)[3]), InOutMode)
       \/ IsUnknown(Trim(Fields(l)[4]), VerifyType)

HasWarning(result, kind, raw) ==
    /\ IsSome(result.warnings)
    /\ \E k \in 1..Len(Get(result.warnings)) :
           /\ Get(result.warnings)[k].kind = kind
           /\ Get(result.warnings)[k].raw = raw

\* C6: on a line with the required fields, an in/out or verify field that is
\* empty, non-numeric or outside its closed set never fails the record: it
\* is returned with CHECK_IN (resp. UNKNOWN) and a warning naming the raw
\* value; and parseAttendanceLog in strict mode does not abort on such a
\* line.
C6_EnumDefaultsNeverFatal ==
    /\ (Returned("parseSingleAttendanceRecord") /\ Defaulted(call.arg)) =>
           LET io == Trim(Fields(call.arg)[3])
               vt == Trim(Fields(call.arg)[4])
           IN  /\ Result.success
               /\ IsUnknown(io, InOutMode) =>
                      /\ Get(Result.data).inOutMode = InOutMode_CHECK_IN
                      /\ HasWarning(Result, "Unknown in/out mode: raw, using CHECK_IN", io)
               /\ IsUnknown(vt, VerifyType) =>
                      /\ Get(Result.data).verifyType = VerifyType_UNKNOWN
                      /\ HasWarning(Result, "Unknown verify type: raw, using UNKNOWN", vt)
    /\ (Returned("parseAttendanceLog") /\ StringBody /\ Strict /\ ~Result.success) =>
           ~Defaulted(NonBlankLines[i + 1])

----------------------------------------------------------------------------
(* C11 *)

\* the records a successful result returns
ReturnedRecords ==
    IF Returned("parseSingleAttendanceRecord") /\ Result.success
    THEN {Get(Result.data)}
    ELSE IF Returned("parseAttendanceLog") /\ Result.success
    THEN {Get(Result.data)[k] : k \in 1..Len(Get(Result.data))}
    ELSE {}

----------------------------------------------------------------------------
(* C12 *)

WarningKinds ==
    {"Unknown in/out mode: raw, using CHECK_IN",
     "Unknown verify type: raw, using UNKNOWN"}

\* the warnings the k-th non-blank line produces when its parse succeeds
LineWarnings(k) ==
    LET r == BatchParse(NonBlankLines[k])
    IN  IF r.success /\ IsSome(r.warnings)
        THEN {Get(r.warnings)[j] : j \in 1..Len(Get(r.warnings))}
        ELSE {}

\* C12: in parseAttendanceLog every warning a successfully parsed line
\* produces (unknown in/out mode, unknown verify type) is in the batch
\* warning list with the "Line N:" prefix of that line, as the messages of
\* failed lines are.
C12_LineWarningsPrefixed ==
    (Returned("parseAttendanceLog") /\ StringBody /\ Result.success) =>
        /\ \A k \in 1..Len(NonBlankLines) : \A w \in LineWarnings(k) :
               \E m \in Diagnostics : m.line >= 1 /\ Unprefixed(m) = w
        /\ \A m \in Diagnostics : m.kind \in WarningKinds => m.line >= 1

----------------------------------------------------------------------------
(* C13 *)

AnyReturned ==
    \/ Returned("parseSingleAttendanceRecord")
    \/ Returned("parseAttendanceLog")
    \/ Returned("parseDeviceInfo")

\* C13: every result of parseSingleAttendanceRecord, parseAttendanceLog and
\* parseDeviceInfo is well-formed: a failure has an error and neither data
\* nor warnings; a success has its data (the record, the record list even
\* if empty, the device info) and no error; warnings occur on successes only.
C13_ResultsWellFormed ==
    AnyReturned =>
        /\ ~Result.success =>
               /\ IsSome(Result.error)
               /\ Result.data = None
               /\ Result.warnings = None
        /\ Result.success =>
               /\ IsSome(Result.data)
               /\ Result.error = None
        /\ IsSome(Result.warnings) => Result.success /\ Get(Result.warnings) # <<>>

\* a lenient batch that extracted no record and collected only warnings
C13_Witness ==
    /\ Returned("parseAttendanceLog")
    /\ StringBody
    /\ Result.success
    /\ Result.data = Some(<<>>)
    /\ IsSome(Result.warnings)
    /\ Len(Get(Result.warnings)) = 2

====
